---- MODULE Spec2Model ----
(***************************************************************************)
(* Model of packages/ziri-py/ziri/__main__.py: the Python launcher shim    *)
(* that delegates to a `ziri` executable found on the search path, falls   *)
(* back to `npx ziri`, and otherwise prints an installation hint.          *)
(*                                                                         *)
(*   2  def run():                                                         *)
(*   3      exe = shutil.which("ziri")                                     *)
(*   4      if exe:                                                        *)
(*   5          sys.exit(subprocess.call([exe] + sys.argv[1:]))            *)
(*   6      npx = shutil.which("npx")                                      *)
(*   7      if npx:                                                        *)
(*   8          sys.exit(subprocess.call([npx, "ziri"] + sys.argv[1:]))    *)
(*   9      print("Ziri requires Node.js >= 18. ...")                      *)
(*  10      sys.exit(1)                                                    *)
(***************************************************************************)
EXTENDS Integers, Sequences, FiniteSets, TLC

\* ------------------------------------------------------------------ bounds
\* Longest argument vector V (sys.argv[1:]) the model enumerates.
MaxArgs == 2

\* ------------------------------------------------------------- environment
\* sys.argv[0], the shim's own program name.
Prog == "ziri-py"

\* Argument strings the caller may pass (one with a space, one with special
\* characters, and the literal token `ziri` itself).
ArgStrings == {"--help", "index", ".", "a b;$x", "ziri"}

\* All argument vectors of length 0 .. MaxArgs.
ArgVectors == UNION {[1..n -> ArgStrings] : n \in 0..MaxArgs}

\* The executable search path, in lookup order.
PATH == <<"/usr/local/bin", "/usr/bin">>

PathDirs == {PATH[i] : i \in 1..Len(PATH)}

\* The two command names the shim looks up.
Commands == {"ziri", "npx"}

\* What a directory holds under a command name:
\*   "absent" - no executable file of that name (shutil.which skips it);
\*   "ok"     - an executable file the kernel can run;
\*   "bad"    - a file with the executable bit set that cannot be run
\*              (exec format error, missing interpreter): shutil.which
\*              returns it, subprocess.call raises OSError on it.
FileKinds == {"absent", "ok", "bad"}

FileSystems == [PathDirs -> [Commands -> FileKinds]]

\* Python's None (the falsy result of shutil.which).
None == "None"

\* The message printed on line 9 (the source quotes the npm command in
\* backquotes, a character TLA+ strings cannot hold; they are written ' here).
GuidanceMessage == "Ziri requires Node.js >= 18. Please install Node and npm, then 'npm -g install ziri'."

\* What Python writes to stderr for an uncaught exception.
Traceback == "Traceback (most recent call last): ... OSError"

\* Exit statuses a child may return, and signals that may kill it.
ExitCodes == {0, 1, 2, 127, 255}

Signals == {9, 15}

\* Exit status of the interpreter when an exception reaches the top level.
UncaughtExceptionStatus == 1

\* --------------------------------------------------------------- variables
VARIABLES
    pc,          \* position of run(): see the transitions below
    argv,        \* sys.argv
    fs,          \* contents of the directories on the search path
    exe,         \* local `exe` (line 3)
    npx,         \* local `npx` (line 6)
    lookups,     \* command names passed to shutil.which, in order
    spawns,      \* argument lists passed to subprocess.call, in order
    childState,  \* "none" | "failed" | "running" | "exited" | "signaled"
    returncode,  \* {} until subprocess.call returns, then {its value}
    stdout,      \* what the shim itself wrote to standard output
    stderr,      \* what the interpreter wrote to standard error
    exitStatus   \* {} while the shim runs, then {its exit status}

vars == <<pc, argv, fs, exe, npx, lookups, spawns, childState, returncode,
          stdout, stderr, exitStatus>>

\* ----------------------------------------------------------------- helpers
Min(S) == CHOOSE x \in S : \A y \in S : x <= y

\* os.path.join(dir, cmd)
Join(dir, cmd) == dir \o "/" \o cmd

\* shutil.which(cmd): the first directory of PATH, in order, that holds an
\* executable file named cmd; None when no directory does.
Which(cmd) ==
    LET hits == {i \in 1..Len(PATH) : fs[PATH[i]][cmd] # "absent"}
    IN  IF hits = {} THEN None ELSE Join(PATH[Min(hits)], cmd)

\* Whether the operating system can start the file at `path`.
CanExec(path) ==
    \E d \in PathDirs, c \in Commands : Join(d, c) = path /\ fs[d][c] = "ok"

\* [exe] + sys.argv[1:]   (line 5)
ZiriArgv_KeepProg(e, av) == <<e>> \o av
ZiriArgv(e, av) == <<e>> \o Tail(av)

\* [npx, "ziri"] + sys.argv[1:]   (line 8)
NpxArgv_NoToken(n, av) == <<n>> \o Tail(av)
NpxArgv(n, av) == <<n, "ziri">> \o Tail(av)

\* Popen.returncode as subprocess.call returns it: the exit status of a child
\* that exited, -N for a child killed by signal N.
Returncode(kind, n) == IF kind = "signaled" THEN 0 - n ELSE n

\* sys.exit(code) for an integer code: the process exit status is the low
\* eight bits of the code.
SysExit_Bool(code) == IF code = 0 THEN 0 ELSE 1
SysExit(code) == code % 256

\* -------------------------------------------------------------------- Init
Init ==
    /\ pc = "START"
    /\ argv \in {<<Prog>> \o v : v \in ArgVectors}
    /\ fs \in FileSystems
    /\ exe = None
    /\ npx = None
    /\ lookups = <<>>
    /\ spawns = <<>>
    /\ childState = "none"
    /\ returncode = {}
    /\ stdout = <<>>
    /\ stderr = <<>>
    /\ exitStatus = {}

\* ----------------------------------------------------------------- actions
\* line 3: exe = shutil.which("ziri")
WhichZiri_Eager ==
    /\ pc = "START"
    /\ exe' = Which("ziri")
    /\ npx' = Which("npx")
    /\ lookups' = lookups \o <<"ziri", "npx">>
    /\ pc' = "CHECK_PRIMARY"
    /\ UNCHANGED <<argv, fs, spawns, childState, returncode, stdout, stderr,
                   exitStatus>>
WhichZiri ==
    /\ pc = "START"
    /\ exe' = Which("ziri")
    /\ lookups' = Append(lookups, "ziri")
    /\ pc' = "CHECK_PRIMARY"
    /\ UNCHANGED <<argv, fs, npx, spawns, childState, returncode, stdout,
                   stderr, exitStatus>>

\* lines 4-5, entering subprocess.call([exe] + sys.argv[1:]): the child
\* starts and the shim blocks in the call, or the spawn fails inside it.
SpawnZiri ==
    /\ pc = "CHECK_PRIMARY"
    /\ exe # None
    /\ spawns' = Append(spawns, ZiriArgv(exe, argv))
    /\ childState' = IF CanExec(exe) THEN "running" ELSE "failed"
    /\ pc' = "EXEC_PRIMARY"
    /\ UNCHANGED <<argv, fs, exe, npx, lookups, returncode, stdout, stderr,
                   exitStatus>>

\* line 5, leaving subprocess.call: the ziri child terminates, the call
\* returns its returncode and sys.exit ends the shim with it.
ZiriTerminates_FallThrough ==
    /\ pc = "EXEC_PRIMARY"
    /\ childState = "running"
    /\ \E kind \in {"exited", "signaled"} :
         \E n \in (IF kind = "exited" THEN ExitCodes ELSE Signals) :
            /\ childState' = kind
            /\ returncode' = {Returncode(kind, n)}
    /\ npx' = Which("npx")
    /\ lookups' = Append(lookups, "npx")
    /\ pc' = "CHECK_FALLBACK"
    /\ UNCHANGED <<argv, fs, exe, spawns, stdout, stderr, exitStatus>>
ZiriTerminates ==
    /\ pc = "EXEC_PRIMARY"
    /\ childState = "running"
    /\ \E kind \in {"exited", "signaled"} :
         \E n \in (IF kind = "exited" THEN ExitCodes ELSE Signals) :
            /\ childState' = kind
            /\ returncode' = {Returncode(kind, n)}
            /\ exitStatus' = {SysExit(Returncode(kind, n))}
    /\ pc' = "EXITED"
    /\ UNCHANGED <<argv, fs, exe, npx, lookups, spawns, stdout, stderr>>

\* line 6: npx = shutil.which("npx"), reached only when exe is falsy.
WhichNpx_Unguarded ==
    /\ pc = "CHECK_PRIMARY"
    /\ npx' = Which("npx")
    /\ lookups' = Append(lookups, "npx")
    /\ pc' = "CHECK_FALLBACK"
    /\ UNCHANGED <<argv, fs, exe, spawns, childState, returncode, stdout,
                   stderr, exitStatus>>
WhichNpx ==
    /\ pc = "CHECK_PRIMARY"
    /\ exe = None
    /\ npx' = Which("npx")
    /\ lookups' = Append(lookups, "npx")
    /\ pc' = "CHECK_FALLBACK"
    /\ UNCHANGED <<argv, fs, exe, spawns, childState, returncode, stdout,
                   stderr, exitStatus>>

\* lines 7-8, entering subprocess.call([npx, "ziri"] + sys.argv[1:]).
SpawnNpx_Verbose ==
    /\ pc = "CHECK_FALLBACK"
    /\ npx # None
    /\ stdout' = Append(stdout, "ziri not found, trying npx")
    /\ spawns' = Append(spawns, NpxArgv(npx, argv))
    /\ childState' = IF CanExec(npx) THEN "running" ELSE "failed"
    /\ pc' = "EXEC_FALLBACK"
    /\ UNCHANGED <<argv, fs, exe, npx, lookups, returncode, stderr,
                   exitStatus>>
SpawnNpx ==
    /\ pc = "CHECK_FALLBACK"
    /\ npx # None
    /\ spawns' = Append(spawns, NpxArgv(npx, argv))
    /\ childState' = IF CanExec(npx) THEN "running" ELSE "failed"
    /\ pc' = "EXEC_FALLBACK"
    /\ UNCHANGED <<argv, fs, exe, npx, lookups, returncode, stdout, stderr,
                   exitStatus>>

\* line 8, leaving subprocess.call: the npx child terminates and sys.exit
\* ends the shim with its returncode.
NpxTerminates ==
    /\ pc = "EXEC_FALLBACK"
    /\ childState = "running"
    /\ \E kind \in {"exited", "signaled"} :
         \E n \in (IF kind = "exited" THEN ExitCodes ELSE Signals) :
            /\ childState' = kind
            /\ returncode' = {Returncode(kind, n)}
            /\ exitStatus' = {SysExit(Returncode(kind, n))}
    /\ pc' = "EXITED"
    /\ UNCHANGED <<argv, fs, exe, npx, lookups, spawns, stdout, stderr>>

\* lines 5 and 8, subprocess.call raising OSError for a file that cannot be
\* started.  run() has no try/except: the exception reaches the top level,
\* the interpreter prints the traceback to stderr and exits.
RaiseOSError_Caught ==
    /\ childState = "failed"
    /\ \/ /\ pc = "EXEC_PRIMARY"
          /\ npx' = Which("npx")
          /\ lookups' = Append(lookups, "npx")
          /\ pc' = "CHECK_FALLBACK"
          /\ UNCHANGED stdout
       \/ /\ pc = "EXEC_FALLBACK"
          /\ stdout' = Append(stdout, GuidanceMessage)
          /\ pc' = "PRINT_AND_FAIL"
          /\ UNCHANGED <<npx, lookups>>
    /\ UNCHANGED <<argv, fs, exe, spawns, childState, returncode, stderr,
                   exitStatus>>
RaiseOSError ==
    /\ pc \in {"EXEC_PRIMARY", "EXEC_FALLBACK"}
    /\ childState = "failed"
    /\ stderr' = Append(stderr, Traceback)
    /\ exitStatus' = {UncaughtExceptionStatus}
    /\ pc' = "EXITED"
    /\ UNCHANGED <<argv, fs, exe, npx, lookups, spawns, childState,
                   returncode, stdout>>

\* line 9: print(...), reached only when npx is falsy too.
PrintGuidance ==
    /\ pc = "CHECK_FALLBACK"
    /\ npx = None
    /\ stdout' = Append(stdout, GuidanceMessage)
    /\ pc' = "PRINT_AND_FAIL"
    /\ UNCHANGED <<argv, fs, exe, npx, lookups, spawns, childState,
                   returncode, stderr, exitStatus>>

\* line 10: sys.exit(1)
ExitFail_Zero ==
    /\ pc = "PRINT_AND_FAIL"
    /\ exitStatus' = {SysExit(0)}
    /\ pc' = "EXITED"
    /\ UNCHANGED <<argv, fs, exe, npx, lookups, spawns, childState,
                   returncode, stdout, stderr>>
ExitFail_Return ==
    /\ pc = "PRINT_AND_FAIL"
    /\ pc' = "RETURNED"
    /\ UNCHANGED <<argv, fs, exe, npx, lookups, spawns, childState,
                   returncode, stdout, stderr, exitStatus>>
ExitFail ==
    /\ pc = "PRINT_AND_FAIL"
    /\ exitStatus' = {SysExit(1)}
    /\ pc' = "EXITED"
    /\ UNCHANGED <<argv, fs, exe, npx, lookups, spawns, childState,
                   returncode, stdout, stderr>>

\* ------------------------------------------------------------ specification
Next ==
    \/ WhichZiri
    \/ SpawnZiri
    \/ ZiriTerminates
    \/ WhichNpx
    \/ SpawnNpx
    \/ NpxTerminates
    \/ RaiseOSError
    \/ PrintGuidance
    \/ ExitFail

Spec == Init /\ [][Next]_vars

\* The interpreter runs the shim's next statement whenever there is one, and
\* a child that was started terminates (the premise of the termination
\* claim): every step is weakly fair.
FairSpec == Spec /\ WF_vars(Next)

\* ================================================================== claims
\* The argument vector V the caller passed: sys.argv without the program name.
V == SubSeq(argv, 2, Len(argv))

\* A command is resolvable when some directory of the search path holds it.
ZiriResolvable == \E d \in PathDirs : fs[d]["ziri"] # "absent"

NpxResolvable == \E d \in PathDirs : fs[d]["npx"] # "absent"

\* The child ran and ended by exiting (so it returned an exit status).
ChildExited == childState = "exited"

\* ---------------------------------------------------------------------- C1
\* C1 as stated: whenever `ziri` is resolvable, the shim ends having spawned
\* that executable with exactly V and with the exit status the child
\* returned.
C1_Original ==
    (pc = "EXITED" /\ ZiriResolvable) =>
        /\ spawns = << <<Which("ziri")>> \o V >>
        /\ ChildExited
        /\ exitStatus = returncode

\* C1 (amended): whenever `ziri` is resolvable, the one spawn call the shim
\* makes names that executable followed by exactly V (same order, count and
\* content, program name excluded), and if the child started and exited with
\* a status, the shim's exit status is exactly that status.
C1_ZiriDelegation ==
    (pc = "EXITED" /\ ZiriResolvable) =>
        /\ spawns = << <<Which("ziri")>> \o V >>
        /\ ChildExited => exitStatus = returncode

C1_Witness ==
    /\ pc = "EXITED"
    /\ ZiriResolvable
    /\ ChildExited
    /\ V = <<"a b;$x", "--help">>
    /\ exitStatus = {127}

\* ---------------------------------------------------------------------- C2
\* C2 as stated: whenever `ziri` is not resolvable and `npx` is, the shim
\* ends having spawned npx with ["ziri"] + V and with the exit status npx
\* returned.
C2_Original ==
    (pc = "EXITED" /\ ~ZiriResolvable /\ NpxResolvable) =>
        /\ spawns = << <<Which("npx"), "ziri">> \o V >>
        /\ ChildExited
        /\ exitStatus = returncode

\* C2 (amended): whenever `ziri` is not resolvable and `npx` is, the one
\* spawn call the shim makes names npx followed by the token ziri and then V
\* unchanged, and if the child started and exited with a status, the shim's
\* exit status is exactly that status.
C2_NpxDelegation ==
    (pc = "EXITED" /\ ~ZiriResolvable /\ NpxResolvable) =>
        /\ spawns = << <<Which("npx"), "ziri">> \o V >>
        /\ ChildExited => exitStatus = returncode

C2_Witness ==
    /\ pc = "EXITED"
    /\ ~ZiriResolvable
    /\ NpxResolvable
    /\ ChildExited
    /\ spawns = << <<"/usr/bin/npx", "ziri", "index", ".">> >>
    /\ exitStatus = {2}

\* ---------------------------------------------------------------------- C3
\* C3: whenever neither `ziri` nor `npx` is resolvable, the shim ends with no
\* spawn call made, exactly the guidance message on standard output and exit
\* status 1, whatever V is.
C3_NoDelegate ==
    (pc = "EXITED" /\ ~ZiriResolvable /\ ~NpxResolvable) =>
        /\ spawns = <<>>
        /\ childState = "none"
        /\ stdout = <<GuidanceMessage>>
        /\ exitStatus = {1}

C3_Witness ==
    /\ pc = "EXITED"
    /\ ~ZiriResolvable
    /\ ~NpxResolvable
    /\ V = <<>>
    /\ stdout = <<GuidanceMessage>>

\* ---------------------------------------------------------------------- C4
\* C4: at most one spawn call is ever made: the ziri spawn and the npx spawn
\* never both occur, and neither occurs twice.
C4_AtMostOneSpawn == Len(spawns) <= 1

C4_Witness ==
    /\ pc = "EXITED"
    /\ ZiriResolvable
    /\ NpxResolvable
    /\ Len(spawns) = 1
    /\ childState \in {"exited", "signaled"}

\* ---------------------------------------------------------------------- C5
\* C5: once a delegate is spawned the shim's own standard output stays empty,
\* whatever the delegate's exit status; the shim never prints anything but
\* the guidance message, never more than once, and on exit it has printed it
\* exactly when no delegate was found.
C5_StdoutOnlyOnFailure ==
    /\ spawns # <<>> => stdout = <<>>
    /\ stdout \in {<<>>, <<GuidanceMessage>>}
    /\ pc = "EXITED" =>
         (stdout = <<GuidanceMessage>> <=> ~(ZiriResolvable \/ NpxResolvable))

C5_Witness ==
    /\ pc = "EXITED"
    /\ ~ZiriResolvable
    /\ childState = "exited"
    /\ returncode = {255}
    /\ stdout = <<>>

\* ---------------------------------------------------------------------- C6
\* C6 as stated: the shim ends with status 1 exactly when neither command
\* was resolvable, and otherwise with what the delegate returned.
C6_Original ==
    pc = "EXITED" =>
        /\ exitStatus = {1} <=> (~ZiriResolvable /\ ~NpxResolvable)
        /\ (ZiriResolvable \/ NpxResolvable) => exitStatus = returncode

\* C6 (amended): the shim ends with status 1 whenever neither command was
\* resolvable (not only then), and whenever a delegate ran and exited with a
\* status the shim's exit status is that status.
C6_ExitStatus ==
    pc = "EXITED" =>
        /\ (~ZiriResolvable /\ ~NpxResolvable) => exitStatus = {1}
        /\ ChildExited => exitStatus = returncode

C6_Witness ==
    /\ pc = "EXITED"
    /\ ChildExited
    /\ returncode = {1}
    /\ exitStatus = {1}

\* ---------------------------------------------------------------------- C7
\* C7 as stated: at most one path lookup and at most one child execution.
C7_Original == Len(lookups) <= 1 /\ Len(spawns) <= 1

\* C7 (amended): at most two path lookups (ziri, then npx) are followed by at
\* most one blocking child execution, after which the shim only exits: no
\* lookup and no further spawn follows a spawn, and the step that ends the
\* child's execution ends the shim.
C7_LookupsThenOneExec ==
    /\ [](Len(lookups) <= 2 /\ Len(spawns) <= 1)
    /\ [][spawns # <<>> => (lookups' = lookups /\ spawns' = spawns
                            /\ pc' = "EXITED")]_vars

C7_Witness ==
    /\ pc = "EXITED"
    /\ lookups = <<"ziri", "npx">>
    /\ Len(spawns) = 1
    /\ childState = "exited"

\* ---------------------------------------------------------------------- C8
\* C8: when a located executable fails to spawn, the shim is inside that one
\* spawn call or has exited with a nonzero status: it has looked up nothing
\* more, spawned nothing else and printed nothing to standard output.
C8_SpawnFailurePropagates ==
    childState = "failed" =>
        /\ pc \in {"EXEC_PRIMARY", "EXEC_FALLBACK", "EXITED"}
        /\ Len(spawns) = 1
        /\ ZiriResolvable => lookups = <<"ziri">>
        /\ stdout = <<>>
        /\ returncode = {}
        /\ pc = "EXITED" => (exitStatus # {} /\ 0 \notin exitStatus)

C8_Witness ==
    /\ childState = "failed"
    /\ pc = "EXITED"
    /\ ZiriResolvable
    /\ \E d \in PathDirs : fs[d]["npx"] = "ok"
    /\ stderr # <<>>

\* ---------------------------------------------------------------------- C9
\* The edges of START -> CHECK_PRIMARY -> {EXEC_PRIMARY | CHECK_FALLBACK ->
\* {EXEC_FALLBACK | PRINT_AND_FAIL}}, each terminal state followed only by
\* the end of the process.
C9_Edges ==
    { <<"START", "CHECK_PRIMARY">>,
      <<"CHECK_PRIMARY", "EXEC_PRIMARY">>,
      <<"CHECK_PRIMARY", "CHECK_FALLBACK">>,
      <<"CHECK_FALLBACK", "EXEC_FALLBACK">>,
      <<"CHECK_FALLBACK", "PRINT_AND_FAIL">>,
      <<"EXEC_PRIMARY", "EXITED">>,
      <<"EXEC_FALLBACK", "EXITED">>,
      <<"PRINT_AND_FAIL", "EXITED">> }

C9_FollowsEdge == <<pc, pc'>> \in C9_Edges

\* C9: every step follows an edge of the linear state machine (so no state
\* is revisited and the three EXEC/PRINT states lead only to the exit); npx
\* is looked up only after the ziri lookup returned nothing; and when ziri is
\* resolvable it is the command spawned and npx is neither looked up nor
\* spawned.
C9_LinearStateMachine ==
    /\ [][C9_FollowsEdge]_vars
    /\ []( /\ lookups \in {<<>>, <<"ziri">>, <<"ziri", "npx">>}
           /\ lookups = <<"ziri", "npx">> => exe = None
           /\ (ZiriResolvable /\ pc \in {"EXEC_PRIMARY", "EXITED"}) =>
                 /\ lookups = <<"ziri">>
                 /\ Len(spawns) = 1
                 /\ spawns[1][1] = Which("ziri") )

C9_Witness ==
    /\ pc = "EXITED"
    /\ ZiriResolvable
    /\ NpxResolvable
    /\ lookups = <<"ziri">>
    /\ spawns[1][1] = "/usr/local/bin/ziri"

\* --------------------------------------------------------------------- C10
\* The terminal outcomes of run().
RelayedZiri ==
    /\ exe # None
    /\ childState \in {"exited", "signaled"}
    /\ \E rc \in returncode : exitStatus = {rc % 256}

RelayedNpx ==
    /\ exe = None
    /\ npx # None
    /\ childState \in {"exited", "signaled"}
    /\ \E rc \in returncode : exitStatus = {rc % 256}

GuidanceAndFail ==
    /\ exe = None
    /\ npx = None
    /\ childState = "none"
    /\ stdout = <<GuidanceMessage>>
    /\ exitStatus = {1}

SpawnErrorPropagated ==
    /\ childState = "failed"
    /\ stdout = <<>>
    /\ stderr # <<>>
    /\ exitStatus # {}
    /\ 0 \notin exitStatus

\* C10 as stated: the shim process ends in one of the three outcomes.
C10_Original ==
    pc = "EXITED" => (RelayedZiri \/ RelayedNpx \/ GuidanceAndFail)

\* C10 (amended): given that a spawned child terminates, every execution
\* ends the shim process, in exactly one of four outcomes (relayed ziri
\* status, relayed npx status, printed guidance with status 1, or the
\* uncaught error of a spawn that failed); run() never returns to its caller
\* and repeats no lookup and no spawn.
C10_Terminates ==
    /\ <>(pc = "EXITED")
    /\ [](pc = "EXITED" =>
            Cardinality({i \in 1..4 :
                \/ i = 1 /\ RelayedZiri
                \/ i = 2 /\ RelayedNpx
                \/ i = 3 /\ GuidanceAndFail
                \/ i = 4 /\ SpawnErrorPropagated}) = 1)
    /\ [](pc # "RETURNED")
    /\ [](/\ Len(spawns) <= 1
          /\ \A i, j \in 1..Len(lookups) : lookups[i] = lookups[j] => i = j)

C10_Witness ==
    /\ pc = "EXITED"
    /\ SpawnErrorPropagated
    /\ ~ZiriResolvable

====
